---- MODULE Spec2Model ----
(***************************************************************************)
(* Model of the vicpack packet decoder (src/vicpackdecoder/vicpack.py).    *)
(*                                                                         *)
(* One vicpack instance is modelled: its fields are the variables, and     *)
(* each public call (add, export, __str__, set) is one action.  A Python   *)
(* string is a sequence of one-character strings.  A Python int that may   *)
(* exceed 31 bits (a raw 32-bit measurement) is a word [hi, lo] standing   *)
(* for hi * 65536 + lo with lo in 0..65535 and hi any integer, so that     *)
(* Python's unbounded two's-complement semantics of |, <<, >>, & are kept. *)
(* Floating-point results are kept as exact expressions (no rounding).     *)
(***************************************************************************)
EXTENDS Integers, Sequences, FiniteSets, TLC

\* ------------------------------------------------------------ constants
PACKET_MEAS == 4
PACKET_INDEX == 2
PACKET_REQUESTID == 3
PACKET_OFFSET == 5
PACKET_HEADER == 5
DRIVER_TYPE == 1
DEFAULT_SLOT == -1
DEFAULT_SENSOR_TYPE == "UNKNOWN"

\* ------------------------------------------------------------ bounds
\* longest run of measurement records in a generated packet
MaxMeas == 3

\* ------------------------------------------------------------ Python int(elem, 16)
HexChars == <<"0","1","2","3","4","5","6","7","8","9","a","b","c","d","e","f">>
UpperHexChars == <<"0","1","2","3","4","5","6","7","8","9","A","B","C","D","E","F">>

\* the value of each hex digit, either case
HexValue ==
  [c \in {HexChars[i] : i \in 1..16} \cup {UpperHexChars[i] : i \in 1..16} |->
     (CHOOSE i \in 1..16 : HexChars[i] = c \/ UpperHexChars[i] = c) - 1]

IsHexDigit(c) == c \in DOMAIN HexValue

DigitValue(c) == HexValue[c]

IsSpace(c) == c \in {" ", "\t", "\n", "\r"}

IsSign(c) == c \in {"+", "-"}

\* int(c1 + c2, 16) for a two-character string: surrounding whitespace is
\* stripped, one sign is accepted, then at least one hex digit must follow.
\* ok = FALSE stands for ValueError.
PyInt16(c1, c2) ==
  IF IsHexDigit(c1) /\ IsHexDigit(c2)
    THEN [ok |-> TRUE, val |-> 16 * DigitValue(c1) + DigitValue(c2)]
  ELSE IF IsSign(c1) /\ IsHexDigit(c2)
    THEN [ok |-> TRUE, val |-> IF c1 = "-" THEN 0 - DigitValue(c2) ELSE DigitValue(c2)]
  ELSE IF IsSpace(c1) /\ IsHexDigit(c2)
    THEN [ok |-> TRUE, val |-> DigitValue(c2)]
  ELSE IF IsHexDigit(c1) /\ IsSpace(c2)
    THEN [ok |-> TRUE, val |-> DigitValue(c1)]
  ELSE [ok |-> FALSE, val |-> 0]

\* The loop of add(): pairs are taken left to right; the first failure wins.
\* string[a+1] past the end is IndexError, a bad pair is ValueError.
RECURSIVE ParsePairs(_, _, _)
ParsePairs(string, a, array) ==
  IF a > Len(string) THEN [err |-> "none", array |-> array]
  ELSE IF a + 1 > Len(string) THEN [err |-> "IndexError", array |-> array]
  ELSE LET r == PyInt16(string[a], string[a + 1])
       IN IF r.ok THEN ParsePairs(string, a + 2, Append(array, r.val))
          ELSE [err |-> "ValueError", array |-> array]

\* ------------------------------------------------------------ Python ints as words
\* n as a word, for n within TLC's integer range
WordOfInt(n) == [hi |-> n \div 65536, lo |-> n % 65536]

\* a | b on Python ints (two's complement of unbounded width)
RECURSIVE OrInt(_, _)
OrInt(a, b) ==
  IF a = 0 THEN b
  ELSE IF b = 0 THEN a
  ELSE IF a = -1 \/ b = -1 THEN -1
  ELSE (IF a % 2 = 1 \/ b % 2 = 1 THEN 1 ELSE 0) + 2 * OrInt(a \div 2, b \div 2)

OrWord(x, y) == [hi |-> OrInt(x.hi, y.hi), lo |-> OrInt(x.lo, y.lo)]

\* b << k for a list element b and k in {0, 8, 16, 24}
ShiftLeft(b, k) ==
  IF k >= 16 THEN [hi |-> b * 2 ^ (k - 16), lo |-> 0]
  ELSE WordOfInt(b * 2 ^ k)

\* ((measurement >> 8) & 255) | ((measurement & 255) << 8)
ByteSwap(w) == (w.lo \div 256) + (w.lo % 256) * 256

\* ctypes.c_int16(measurement).value
CInt16(w) == IF w.lo < 32768 THEN w.lo ELSE w.lo - 65536

\* ctypes.c_uint16(measurement).value
CUInt16(w) == w.lo

\* ctypes.c_int32(measurement).value
CInt32(w) ==
  LET h == w.hi % 65536
  IN [hi |-> IF h < 32768 THEN h ELSE h - 65536, lo |-> w.lo]

\* w * (-1)
NegWord(w) ==
  IF w.lo = 0 THEN [hi |-> 0 - w.hi, lo |-> 0]
  ELSE [hi |-> 0 - w.hi - 1, lo |-> 65536 - w.lo]

\* ------------------------------------------------------------ Python values
\* A number is x * cn * 10^ce / cd + on * 10^oe with x a word; t tells an int,
\* a bool (x is 0 or 1) and a float apart.  t = "dbspl" is the float
\* 20 * log10(vmic / vref) + on with vmic = (2^-17 * cn * x) / cd, kept symbolic.
PyInt(w) == [t |-> "int", x |-> w, cn |-> 1, ce |-> 0, cd |-> 1, on |-> 0, oe |-> 0]

PyBool(b) ==
  [t |-> "bool", x |-> WordOfInt(IF b THEN 1 ELSE 0), cn |-> 1, ce |-> 0, cd |-> 1,
   on |-> 0, oe |-> 0]

PyFloat(w, cn, ce, cd, on, oe) ==
  [t |-> "float", x |-> w, cn |-> cn, ce |-> ce, cd |-> cd, on |-> on, oe |-> oe]

\* a str and a list are told apart by tag
PyStr(s) == [tag |-> "str", str |-> s, items |-> <<>>]

PyList(xs) == [tag |-> "list", str |-> "", items |-> xs]

\* len(v)
PyLen(v) == IF v.tag = "list" THEN Len(v.items) ELSE Len(v.str)

\* ------------------------------------------------------------ decode functions
get_sw_version(measurement) ==
  <<PyInt(WordOfInt(measurement.hi % 256)),
    PyInt(WordOfInt(measurement.lo \div 256)),
    PyInt(WordOfInt(measurement.lo % 256))>>

\* get_driver_info returning [index, driver, slot, enabled]
get_driver_info_SlotIndexSwapped(measurement) ==
  [driver |-> measurement.hi \div 256,
   slot |-> measurement.lo \div 256,
   index |-> measurement.hi % 256,
   enabled |-> (measurement.lo % 256) # 0]

\* [slot, driver, index, enabled]
get_driver_info(measurement) ==
  [driver |-> measurement.hi \div 256,
   slot |-> measurement.hi % 256,
   index |-> measurement.lo \div 256,
   enabled |-> (measurement.lo % 256) # 0]

get_ondie_voltage(measurement) == <<PyFloat(measurement, 1, -3, 1, 0, 0)>>

get_battery_voltage(measurement) == <<PyFloat(measurement, 1, -6, 1, 0, 0)>>

\* get_ondie_temperature reading the low 16 bits as unsigned
get_ondie_temperature_Unsigned(measurement) ==
  <<PyFloat(WordOfInt(CUInt16(measurement)), 1, -2, 1, 0, 0)>>

get_ondie_temperature(measurement) ==
  <<PyFloat(WordOfInt(CInt16(measurement)), 1, -2, 1, 0, 0)>>

get_distance(measurement) == <<PyInt(measurement)>>

get_external_temperature(measurement) ==
  <<PyFloat(measurement, 17572, -2, 65536, -4685, -2)>>

get_external_humidity(measurement) == <<PyFloat(measurement, 125, 0, 65536, -6, 0)>>

\* measurement >> 8 is hi * 256 + lo \div 256
get_switch_value(measurement) ==
  <<PyInt(WordOfInt(measurement.hi * 256 + measurement.lo \div 256)),
    PyInt(WordOfInt(measurement.lo % 256))>>

get_gpio_value(measurement) == <<PyInt(measurement)>>

get_acceleration(measurement) ==
  <<PyFloat(WordOfInt(CInt16(measurement) \div 64), 39, -4, 1, 0, 0)>>

get_charge(measurement) == <<PyInt(WordOfInt(CUInt16(measurement)))>>

get_ext_current(measurement) == <<PyFloat(measurement, 322911, -10, 1, 0, 0)>>

get_ext_voltage(measurement) == <<PyFloat(measurement, 484438, -7, 1, 0, 0)>>

get_ambient_light(measurement) ==
  LET m == ByteSwap(measurement)
      exp == m \div 4096
      man == m % 4096
  IN <<PyFloat(WordOfInt((2 ^ exp) * man), 1, -2, 1, 0, 0)>>

get_error_code(measurement) == <<PyInt(NegWord(CInt32(measurement)))>>

get_default(measurement) == <<PyInt(measurement)>>

get_voc_iaq(measurement) ==
  LET m == ByteSwap(measurement)
  IN <<PyInt(WordOfInt(m % 16384)), PyInt(WordOfInt((m \div 16384) % 4))>>

get_voc_temperature(measurement) ==
  LET m == ByteSwap(measurement)
  IN <<PyFloat(WordOfInt(m % 65536), 1, -1, 1, 0, 0)>>

\* the masked value is computed and dropped: the swapped value is divided
get_voc_humidity(measurement) ==
  LET m == ByteSwap(measurement)
  IN <<PyFloat(WordOfInt(m), 1, -2, 1, 0, 0)>>

get_voc_pressure(measurement) ==
  LET m == ByteSwap(measurement)
  IN <<PyFloat(WordOfInt(m % 65536), 1, 1, 1, 0, 0)>>

get_voc_ambient_light(measurement) ==
  LET m == ByteSwap(measurement)
      exp == m \div 4096
      man == m % 4096
  IN <<PyFloat(WordOfInt((2 ^ exp) * man), 1, -2, 1, 0, 0)>>

\* vmic = -((2^-17 * rs * 3.0 * (2^16 - 2 m)) / rf); math.log10 raises for
\* vmic / vref <= 0, i.e. for 2 m - 65536 <= 0, and the except gives 0
get_voc_sound_level(measurement) ==
  LET m == ByteSwap(measurement)
      x == 2 * m - 65536
  IN IF x <= 0 THEN <<PyInt(WordOfInt(0))>>
     ELSE <<[t |-> "dbspl", x |-> WordOfInt(x), cn |-> 3000, ce |-> 0, cd |-> 82000,
             on |-> 52, oe |-> 0]>>

get_tof_distance(measurement) ==
  LET m == ByteSwap(measurement)
  IN <<PyInt(WordOfInt(m % 8192)), PyInt(WordOfInt((m \div 8192) % 8))>>

get_terminal_voltage(measurement) ==
  <<PyFloat(WordOfInt(ByteSwap(measurement)), 3, 0, 65536, 0, 0)>>

get_terminal_voltage_diff(measurement) ==
  <<PyFloat(WordOfInt(ByteSwap(measurement)), 3, 0, 32768, 0, 0)>>

\* ------------------------------------------------------------ registry
\* self.types, in the order of the dict
Types == <<
    [key |-> "no_measurement", fmt |-> "unknown       : {:d}", type |-> 0, si |-> FALSE, units |-> PyStr(""), function |-> "get_default"],
    [key |-> "driver_info", fmt |-> "slot: {:02d}, drv: {:02d}, index: {:02d}, ena: {}", type |-> 1, si |-> FALSE, units |-> PyStr(""), function |-> "get_driver_info"],
    [key |-> "sampling_time", fmt |-> "{}", type |-> 2, si |-> FALSE, units |-> PyStr("sec"), function |-> "get_default"],
    [key |-> "sampling_time_lsb", fmt |-> "{}", type |-> 3, si |-> FALSE, units |-> PyStr(""), function |-> "get_default"],
    [key |-> "sampling_time_offset", fmt |-> "{}", type |-> 4, si |-> FALSE, units |-> PyStr("usec"), function |-> "get_default"],
    [key |-> "internal_battery_on_die", fmt |-> "on-die volt   : {:.2f}", type |-> 7, si |-> TRUE, units |-> PyStr("V"), function |-> "get_ondie_voltage"],
    [key |-> "internal_battery", fmt |-> "battery       : {:.2f}", type |-> 8, si |-> TRUE, units |-> PyStr("V"), function |-> "get_battery_voltage"],
    [key |-> "internal_temperature", fmt |-> "on-die temp   : {:.2f}", type |-> 11, si |-> TRUE, units |-> PyStr("C"), function |-> "get_ondie_temperature"],
    [key |-> "voltage_real_part", fmt |-> "ext. voltage  : {:.2f}", type |-> 13, si |-> TRUE, units |-> PyStr("V"), function |-> "get_ext_voltage"],
    [key |-> "voltage_imag_part", fmt |-> "{}", type |-> 14, si |-> TRUE, units |-> PyStr("V"), function |-> "get_default"],
    [key |-> "current_real_part", fmt |-> "ext. current  : {:.2f}", type |-> 15, si |-> TRUE, units |-> PyStr("A"), function |-> "get_ext_current"],
    [key |-> "current_imag_part", fmt |-> "{}", type |-> 16, si |-> TRUE, units |-> PyStr("A"), function |-> "get_default"],
    [key |-> "charge", fmt |-> "{}", type |-> 19, si |-> TRUE, units |-> PyStr("C"), function |-> "get_charge"],
    [key |-> "temperature", fmt |-> "temperature   : {:.2f}", type |-> 20, si |-> FALSE, units |-> PyStr("C"), function |-> "get_external_temperature"],
    [key |-> "humidity", fmt |-> "humidity      : {:.2f}", type |-> 21, si |-> FALSE, units |-> PyStr("RH"), function |-> "get_external_humidity"],
    [key |-> "pressure", fmt |-> "{}", type |-> 22, si |-> FALSE, units |-> PyStr("bar"), function |-> "get_default"],
    [key |-> "acceleration_x", fmt |-> "acc. x-axis   : {:.2f}", type |-> 23, si |-> TRUE, units |-> PyStr("g"), function |-> "get_acceleration"],
    [key |-> "acceleration_y", fmt |-> "acc. y-axis   : {:.2f}", type |-> 24, si |-> TRUE, units |-> PyStr("g"), function |-> "get_acceleration"],
    [key |-> "acceleration_z", fmt |-> "acc. z-axis   : {:.2f}", type |-> 25, si |-> TRUE, units |-> PyStr("g"), function |-> "get_acceleration"],
    [key |-> "switch_interrupt", fmt |-> "switch        : {}, {}", type |-> 26, si |-> FALSE, units |-> PyList(<<"pin", "value">>), function |-> "get_switch_value"],
    [key |-> "audio_average", fmt |-> "audio avg     : {:.2f}", type |-> 27, si |-> FALSE, units |-> PyStr("count"), function |-> "get_default"],
    [key |-> "audio_max", fmt |-> "audio max     : {:.2f}", type |-> 28, si |-> FALSE, units |-> PyStr("count"), function |-> "get_default"],
    [key |-> "audio_spl", fmt |-> "audio spl     : {:.2f}", type |-> 29, si |-> FALSE, units |-> PyStr("dB"), function |-> "get_default"],
    [key |-> "ambient_light_visible", fmt |-> "ambient light : {:2f}", type |-> 30, si |-> FALSE, units |-> PyStr("lux"), function |-> "get_ambient_light"],
    [key |-> "ambient_light_ir", fmt |-> "ambient ir    : {:2f}", type |-> 31, si |-> FALSE, units |-> PyStr("lux"), function |-> "get_default"],
    [key |-> "ambient_light_uv", fmt |-> "uv index      : {:d}", type |-> 32, si |-> FALSE, units |-> PyStr(""), function |-> "get_default"],
    [key |-> "co2_level", fmt |-> "co2 level     : {:d}", type |-> 33, si |-> FALSE, units |-> PyStr("g"), function |-> "get_default"],
    [key |-> "distance", fmt |-> "distance      : {:d}", type |-> 34, si |-> FALSE, units |-> PyStr("mm"), function |-> "get_distance"],
    [key |-> "sample_rate", fmt |-> "sample rate   : {:2d}", type |-> 35, si |-> FALSE, units |-> PyStr("msec"), function |-> "get_default"],
    [key |-> "magnetometer", fmt |-> "magnetometer  : {:2d}", type |-> 40, si |-> FALSE, units |-> PyStr(""), function |-> "get_default"],
    [key |-> "fft_data", fmt |-> "fft_data      : {:2d}", type |-> 41, si |-> FALSE, units |-> PyStr(""), function |-> "get_default"],
    [key |-> "gpio_value", fmt |-> "gpio value    : {:2d}", type |-> 42, si |-> FALSE, units |-> PyStr(""), function |-> "get_gpio_value"],
    [key |-> "voc_iaq", fmt |-> "iaq           : {:2d}, {:d}", type |-> 43, si |-> FALSE, units |-> PyList(<<"index", "state">>), function |-> "get_voc_iaq"],
    [key |-> "voc_temperature", fmt |-> "temperature   : {:2f}", type |-> 44, si |-> FALSE, units |-> PyStr("C"), function |-> "get_voc_temperature"],
    [key |-> "voc_humidity", fmt |-> "humidity      : {:2f}", type |-> 45, si |-> FALSE, units |-> PyStr("RH%"), function |-> "get_voc_humidity"],
    [key |-> "voc_pressure", fmt |-> "pressure      : {:2f}", type |-> 46, si |-> FALSE, units |-> PyStr("pA"), function |-> "get_voc_pressure"],
    [key |-> "voc_ambient_light", fmt |-> "ambient light : {:2f}", type |-> 47, si |-> FALSE, units |-> PyStr("lux"), function |-> "get_voc_ambient_light"],
    [key |-> "voc_sound_level", fmt |-> "sound level   : {:2f}", type |-> 48, si |-> FALSE, units |-> PyStr("dbSpl"), function |-> "get_voc_sound_level"],
    [key |-> "tof_distance", fmt |-> "distance      : {:2d}, {:d}", type |-> 49, si |-> FALSE, units |-> PyList(<<"mm", "state">>), function |-> "get_tof_distance"],
    [key |-> "accelerometer_status", fmt |-> "acc. status   : {:2d}", type |-> 50, si |-> FALSE, units |-> PyStr("state"), function |-> "get_default"],
    [key |-> "gps", fmt |-> "gps           : {:2d}", type |-> 51, si |-> FALSE, units |-> PyStr("state"), function |-> "get_default"],
    [key |-> "voltage", fmt |-> "voltage       : {:.2f}", type |-> 52, si |-> FALSE, units |-> PyStr("V"), function |-> "get_terminal_voltage"],
    [key |-> "voltage_diff", fmt |-> "voltage diff  : {:.2f}", type |-> 53, si |-> FALSE, units |-> PyStr("V"), function |-> "get_terminal_voltage_diff"],
    [key |-> "voltage_ref", fmt |-> "voltage vref  : {:.2f}", type |-> 54, si |-> FALSE, units |-> PyStr("V"), function |-> "get_terminal_voltage"],
    [key |-> "advertisement", fmt |-> "advertisement : {:d}", type |-> 100, si |-> FALSE, units |-> PyStr(""), function |-> "get_default"],
    [key |-> "stream_start", fmt |-> "stream start  : {:d}", type |-> 121, si |-> FALSE, units |-> PyStr(""), function |-> "get_default"],
    [key |-> "stream_stop", fmt |-> "stream stop   : {:d}", type |-> 122, si |-> FALSE, units |-> PyStr(""), function |-> "get_default"],
    [key |-> "value_raw", fmt |-> "raw value     : {:d}", type |-> 123, si |-> FALSE, units |-> PyStr(""), function |-> "get_default"],
    [key |-> "app_sw_ver", fmt |-> "sw ver        : {:d}.{:d}.{:d}", type |-> 124, si |-> FALSE, units |-> PyStr(""), function |-> "get_sw_version"],
    [key |-> "driver_resp", fmt |-> "drv response  : {:d}", type |-> 125, si |-> FALSE, units |-> PyStr(""), function |-> "get_default"],
    [key |-> "packet_ack", fmt |-> "ack packet id : {:d}", type |-> 126, si |-> FALSE, units |-> PyStr(""), function |-> "get_default"],
    [key |-> "error_code", fmt |-> "error code    : {:d}", type |-> 127, si |-> FALSE, units |-> PyStr(""), function |-> "get_error_code"],
    [key |-> "crc_code", fmt |-> "crc 16        : 0x{:x}", type |-> 128, si |-> FALSE, units |-> PyStr(""), function |-> "get_default"],
    [key |-> "shutdown", fmt |-> "shutdown      : {:d}", type |-> 129, si |-> FALSE, units |-> PyStr(""), function |-> "get_default"],
    [key |-> "variable_length", fmt |-> "varlen        : {:d}", type |-> 130, si |-> FALSE, units |-> PyStr(""), function |-> "get_default"],
    [key |-> "device_id", fmt |-> "device id     : {:d}", type |-> 131, si |-> FALSE, units |-> PyStr(""), function |-> "get_default"],
    [key |-> "device_pin", fmt |-> "device pin    : {:d}", type |-> 132, si |-> FALSE, units |-> PyStr(""), function |-> "get_default"],
    [key |-> "rssi_level", fmt |-> "rssi level    : {:d}", type |-> 133, si |-> FALSE, units |-> PyStr(""), function |-> "get_default"],
    [key |-> "cell_id", fmt |-> "cell id       : {:d}", type |-> 134, si |-> FALSE, units |-> PyStr(""), function |-> "get_default"],
    [key |-> "config_ver", fmt |-> "config ver    : {:d}", type |-> 135, si |-> FALSE, units |-> PyStr(""), function |-> "get_default"]
  >>

\* self.sensors
Sensors == <<
    "SENSOR_NO_SENSOR",
    "SENSOR_SI7050_TEMP",
    "SENSOR_SI7020_HUMIDITY",
    "SENSOR_SWITCH",
    "SENSOR_INTERNAL_ADC",
    "SENSOR_LTC1864L_ADC",
    "SENSOR_420MA_LOOP",
    "SENSOR_UART",
    "SENSOR_ACCELEROMETER",
    "SENSOR_DIGITAL_MIC",
    "SENSOR_AMBIENT_LIGHT",
    "SENSOR_CO2_MODULE",
    "SENSOR_CUSTOM_1",
    "SENSOR_CUSTOM_2",
    "SENSOR_CUSTOM_3",
    "SENSOR_CUSTOM_4",
    "SENSOR_DEBUG",
    "SENSOR_ENVIRONMENTAL",
    "SENSOR_GPS",
    "SENSOR_TERMINAL",
    "SENSOR_TOF",
    "SENSOR_PIR",
    "SENSOR_CAPA",
    "SENSOR_SONAR"
  >>

\* self.types[k]['function'](data)
Call(function, data) ==
  CASE function = "get_default" -> get_default(data)
    [] function = "get_driver_info" ->
         LET d == get_driver_info(data)
         IN <<PyInt(WordOfInt(d.slot)), PyInt(WordOfInt(d.driver)),
              PyInt(WordOfInt(d.index)), PyBool(d.enabled)>>
    [] function = "get_ondie_voltage" -> get_ondie_voltage(data)
    [] function = "get_battery_voltage" -> get_battery_voltage(data)
    [] function = "get_ondie_temperature" -> get_ondie_temperature(data)
    [] function = "get_ext_voltage" -> get_ext_voltage(data)
    [] function = "get_ext_current" -> get_ext_current(data)
    [] function = "get_charge" -> get_charge(data)
    [] function = "get_external_temperature" -> get_external_temperature(data)
    [] function = "get_external_humidity" -> get_external_humidity(data)
    [] function = "get_acceleration" -> get_acceleration(data)
    [] function = "get_switch_value" -> get_switch_value(data)
    [] function = "get_ambient_light" -> get_ambient_light(data)
    [] function = "get_distance" -> get_distance(data)
    [] function = "get_gpio_value" -> get_gpio_value(data)
    [] function = "get_voc_iaq" -> get_voc_iaq(data)
    [] function = "get_voc_temperature" -> get_voc_temperature(data)
    [] function = "get_voc_humidity" -> get_voc_humidity(data)
    [] function = "get_voc_pressure" -> get_voc_pressure(data)
    [] function = "get_voc_ambient_light" -> get_voc_ambient_light(data)
    [] function = "get_voc_sound_level" -> get_voc_sound_level(data)
    [] function = "get_tof_distance" -> get_tof_distance(data)
    [] function = "get_terminal_voltage" -> get_terminal_voltage(data)
    [] function = "get_terminal_voltage_diff" -> get_terminal_voltage_diff(data)
    [] function = "get_sw_version" -> get_sw_version(data)
    [] function = "get_error_code" -> get_error_code(data)

\* ------------------------------------------------------------ __get_meas
\* pck[i] for a 0-based i >= 0; the list is 1-based here
InRange(pck, i) == i + 1 <= Len(pck)

\* data |= self.pck[data_off + (3 - i)] << (i * 8) for i = 3, 2, 1, 0
RECURSIVE ComposeData(_, _, _, _)
ComposeData(pck, data_off, i, data) ==
  IF i < 0 THEN data
  ELSE ComposeData(pck, data_off, i - 1,
                   OrWord(data, ShiftLeft(pck[data_off + (3 - i) + 1], i * 8)))


\* get_meas reading the bytes missing past the end of the list as zeros
get_meas_Padded(pck, num) ==
  LET padded == pck \o [k \in 1..(PACKET_OFFSET * (num + 2)) |-> 0]
      type_off == PACKET_OFFSET * num + PACKET_HEADER
      data_off == type_off + 1
  IN [err |-> "none", typ |-> padded[type_off + 1],
      data |-> ComposeData(padded, data_off, 3, WordOfInt(0))]

\* (data_type, data) of measurement num, or IndexError
get_meas(pck, num) ==
  LET type_off == PACKET_OFFSET * num + PACKET_HEADER
      data_off == type_off + 1
  IN IF ~InRange(pck, type_off) \/ ~InRange(pck, data_off + 3)
       THEN [err |-> "IndexError", typ |-> 0, data |-> WordOfInt(0)]
       ELSE [err |-> "none", typ |-> pck[type_off + 1],
             data |-> ComposeData(pck, data_off, 3, WordOfInt(0))]

\* ------------------------------------------------------------ __get_json
\* the registry entries whose type is typ, in dict order
Matching(typ) == SelectSeq(Types, LAMBDA v : v.type = typ)

\* raw after the entries vs have been visited by the loop, in order
RECURSIVE JsonLoop(_, _, _)
JsonLoop(vs, data, raw) ==
  IF vs = <<>> THEN raw
  ELSE LET v == Head(vs)
       IN JsonLoop(Tail(vs), data,
                   [key |-> v.key,
                    unit |-> IF v.units.tag = "list" THEN v.units
                             ELSE PyList(<<v.units.str>>),
                    value |-> PyList(Call(v.function, data))])

get_json(typ, data) ==
  JsonLoop(Matching(typ), data,
           [key |-> "n/a", value |-> PyStr("0"), unit |-> PyStr("n/a")])

\* ------------------------------------------------------------ export

\* SensorLookup falling back to the default sensor type past the table
SensorLookup_Default(driver) ==
  IF driver >= 0 /\ driver < Len(Sensors) THEN [err |-> "none", name |-> Sensors[driver + 1]]
  ELSE [err |-> "none", name |-> DEFAULT_SENSOR_TYPE]

\* self.sensors[driver]: a Python list index, negative from the end
SensorLookup(driver) ==
  IF driver >= 0 /\ driver < Len(Sensors) THEN [err |-> "none", name |-> Sensors[driver + 1]]
  ELSE IF driver < 0 /\ driver >= 0 - Len(Sensors)
    THEN [err |-> "none", name |-> Sensors[Len(Sensors) + driver + 1]]
  ELSE [err |-> "IndexError", name |-> ""]

\* the _sensor dict of export()
SensorProto ==
  [slot |-> DEFAULT_SLOT, sensorType |-> DEFAULT_SENSOR_TYPE, index |-> 0,
   measurements |-> <<>>]

\* the export dict
ExportDict(sensors, packetId, requestId) ==
  [sensors |-> sensors, time |-> <<>>, packetId |-> packetId, requestId |-> requestId]

\* what a call leaves: the exception raised (or none), the value returned,
\* the fields export() writes, and the measurement numbers read
Outcome(err, ret, st) ==
  [err |-> err, ret |-> ret, slot |-> st.slot, driver |-> st.driver,
   index |-> st.index, enabled |-> st.enabled, reads |-> st.reads]

\* the for-else of one pass of the while loop on a non-driver measurement:
\* val['measurements'].append(...); while val is the copy of _sensor its list
\* is _sensor's own list
AppendMeasurement(st, m) ==
  [st EXCEPT !.val.measurements = Append(@, m),
             !.proto.measurements = IF st.shared THEN Append(@, m) ELSE @]


\* StartSlot that starts the next slot without closing the open one
StartSlot_KeepOpen(st, data) ==
  LET d == get_driver_info(data)
      look == SensorLookup(d.driver)
      st1 == [st EXCEPT !.new = FALSE,
                        !.slot = d.slot, !.driver = d.driver,
                        !.index = d.index, !.enabled = d.enabled]
  IN IF look.err # "none" THEN [st1 EXCEPT !.err = look.err]
     ELSE [st1 EXCEPT !.val = [slot |-> d.slot, sensorType |-> look.name,
                               index |-> d.index, measurements |-> <<>>],
                      !.shared = FALSE,
                      !.new = TRUE]

\* a driver measurement: close the open slot, start the next one
StartSlot(st, data) ==
  LET d == get_driver_info(data)
      look == SensorLookup(d.driver)
      st1 == [st EXCEPT !.sensors = IF st.new THEN Append(@, st.val) ELSE @,
                        !.new = FALSE,
                        !.slot = d.slot, !.driver = d.driver,
                        !.index = d.index, !.enabled = d.enabled]
  IN IF look.err # "none" THEN [st1 EXCEPT !.err = look.err]
     ELSE [st1 EXCEPT !.val = [slot |-> d.slot, sensorType |-> look.name,
                               index |-> d.index, measurements |-> <<>>],
                      !.shared = FALSE,
                      !.new = TRUE]

\* the while loop of export(), from measurement st.meas on
RECURSIVE ExportLoop(_, _)
ExportLoop(self, st) ==
  LET r == get_meas(self.pck, st.meas)
      st0 == [st EXCEPT !.reads = Append(@, st.meas)]
  IN IF r.err # "none" THEN Outcome(r.err, <<>>, st0)
     ELSE LET st1 == IF r.typ = DRIVER_TYPE THEN StartSlot(st0, r.data)
                     ELSE AppendMeasurement(st0, get_json(r.typ, r.data))
          IN IF st1.err # "none" THEN Outcome(st1.err, <<>>, st1)
             ELSE IF (st1.meas + 1) > self.meas - 1
               THEN Outcome("none",
                            <<ExportDict(Append(st1.sensors, st1.val), self.id,
                                         self.requestId)>>,
                            st1)
             ELSE ExportLoop(self, [st1 EXCEPT !.meas = @ + 1])


\* ExportCall whose new flag lives on the instance (the enabled field) and is
\* not reset by the call
ExportCall_NewOnInstance(self) ==
  LET r == get_meas(self.pck, 0)
      st == [meas |-> 0, val |-> SensorProto, shared |-> r.typ # DRIVER_TYPE,
             proto |-> SensorProto, new |-> self.enabled, sensors |-> <<>>,
             err |-> "none",
             slot |-> self.slot, driver |-> self.driver, index |-> self.index,
             enabled |-> self.enabled, reads |-> <<0>>]
  IN IF r.err # "none" THEN Outcome(r.err, <<>>, st)
     ELSE ExportLoop(self, st)

\* export() on the instance self; ret is <<>> when an exception is raised
ExportCall(self) ==
  LET r == get_meas(self.pck, 0)
      st == [meas |-> 0, val |-> SensorProto, shared |-> r.typ # DRIVER_TYPE,
             proto |-> SensorProto, new |-> FALSE, sensors |-> <<>>, err |-> "none",
             slot |-> self.slot, driver |-> self.driver, index |-> self.index,
             enabled |-> self.enabled, reads |-> <<0>>]
  IN IF r.err # "none" THEN Outcome(r.err, <<>>, st)
     ELSE ExportLoop(self, st)

\* ------------------------------------------------------------ __get_si
incPrefixes == <<"k", "M", "G", "T", "P", "E", "Z", "Y">>
decPrefixes == <<"m", "u", "n", "p", "f", "a", "z", "y">>

\* decimal digits of a natural number, least significant first; <<>> for 0
RECURSIVE DigitsOfNat(_)
DigitsOfNat(n) == IF n = 0 THEN <<>> ELSE <<n % 10>> \o DigitsOfNat(n \div 10)

\* the digits of ds * k + c
RECURSIVE MulAdd(_, _, _)
MulAdd(ds, k, c) ==
  IF ds = <<>> THEN DigitsOfNat(c)
  ELSE LET t == Head(ds) * k + c
       IN <<t % 10>> \o MulAdd(Tail(ds), k, t \div 10)

RECURSIVE StripZeros(_)
StripZeros(ds) ==
  IF ds # <<>> /\ ds[Len(ds)] = 0 THEN StripZeros(SubSeq(ds, 1, Len(ds) - 1)) ELSE ds

\* math.fabs of a word
AbsWord(w) == IF w.hi < 0 THEN NegWord(w) ELSE w

\* the decimal digits of |x * cn| for a number x * cn * 10^ce (every type with
\* the si flag decodes to such a number: cd = 1 and on = 0)
Mantissa(num) ==
  LET a == AbsWord(num.x)
      c == IF num.cn < 0 THEN 0 - num.cn ELSE num.cn
  IN StripZeros(MulAdd(MulAdd(DigitsOfNat(a.hi), 65536, a.lo), c, 0))

\* int(math.floor(math.log10(math.fabs(num)) / 3)) for num != 0
Degree(num) == (Len(Mantissa(num)) - 1 + num.ce) \div 3

\* get_si scaling by the degree found, also where the prefix is the last of
\* its table
get_si_ScaleUnclamped(num) ==
  LET degree == IF Mantissa(num) # <<>> THEN Degree(num) ELSE 0
  IN IF degree > 0
       THEN [scaled |-> [num EXCEPT !.t = "float", !.ce = @ - 3 * degree],
             prefix |-> IF degree - 1 < Len(incPrefixes) THEN incPrefixes[degree]
                        ELSE incPrefixes[Len(incPrefixes)]]
     ELSE IF degree < 0
       THEN [scaled |-> [num EXCEPT !.t = "float", !.ce = @ - 3 * degree],
             prefix |-> IF 0 - degree - 1 < Len(decPrefixes) THEN decPrefixes[0 - degree]
                        ELSE decPrefixes[Len(decPrefixes)]]
     ELSE [scaled |-> num, prefix |-> ""]

\* (scaled, prefix) for val[0] = num
get_si(num) ==
  LET degree == IF Mantissa(num) # <<>> THEN Degree(num) ELSE 0
  IN IF degree > 0
       THEN IF degree - 1 < Len(incPrefixes)
              THEN [scaled |-> [num EXCEPT !.t = "float", !.ce = @ - 3 * degree],
                    prefix |-> incPrefixes[degree]]
              ELSE [scaled |-> [num EXCEPT !.t = "float",
                                           !.ce = @ - 3 * Len(incPrefixes)],
                    prefix |-> incPrefixes[Len(incPrefixes)]]
     ELSE IF degree < 0
       THEN IF 0 - degree - 1 < Len(decPrefixes)
              THEN [scaled |-> [num EXCEPT !.t = "float", !.ce = @ - 3 * degree],
                    prefix |-> decPrefixes[0 - degree]]
              ELSE [scaled |-> [num EXCEPT !.t = "float",
                                           !.ce = @ + 3 * Len(decPrefixes)],
                    prefix |-> decPrefixes[Len(decPrefixes)]]
     ELSE [scaled |-> num, prefix |-> ""]

\* ------------------------------------------------------------ __get_str
\* A line of text is kept as its parts: the line prefix, the template, the
\* values substituted into it, and the strings that follow.
NoLine == [prefix |-> "", fmt |-> "", args |-> <<>>, tail |-> <<>>]

\* ', '.join(units) or units
UnitsText(units) ==
  IF units.tag = "list" THEN units.items ELSE <<units.str>>

RECURSIVE StrLoop(_, _, _, _, _)
StrLoop(vs, typ, data, prefix, msg) ==
  IF vs = <<>> THEN msg
  ELSE LET v == Head(vs)
           lead == IF typ = DRIVER_TYPE THEN "+--+ " ELSE "|  +-- "
           res == Call(v.function, data)
           line == IF v.si /\ prefix
                     THEN LET si == get_si(res[1])
                          IN [prefix |-> lead, fmt |-> v.fmt, args |-> <<si.scaled>>,
                              tail |-> <<" ", si.prefix>> \o UnitsText(v.units)]
                     ELSE [prefix |-> lead, fmt |-> v.fmt, args |-> res,
                           tail |-> <<" ">> \o UnitsText(v.units)]
       IN StrLoop(Tail(vs), typ, data, prefix, line)

\* get_str giving every line the lead of a data measurement
get_str_DataLead(typ, data, prefix) ==
  LET line == StrLoop(Matching(typ), typ, data, prefix, NoLine)
  IN IF line = NoLine THEN line ELSE [line EXCEPT !.prefix = "|  +-- "]

\* '' when no entry matches
get_str(typ, data, prefix) == StrLoop(Matching(typ), typ, data, prefix, NoLine)

\* ------------------------------------------------------------ __str__
\* the while loop of the detailed text, from measurement meas on
RECURSIVE StrDetailLoop(_, _, _, _)
StrDetailLoop(self, meas, lines, reads) ==
  LET r == get_meas(self.pck, meas)
      reads1 == Append(reads, meas)
  IN IF r.err # "none" THEN [err |-> r.err, ret |-> <<>>, reads |-> reads1]
     ELSE LET lines1 == Append(lines, get_str(r.typ, r.data, self.prefix))
          IN IF (meas + 1) > (self.meas - 1)
               THEN [err |-> "none", ret |-> <<lines1>>, reads |-> reads1]
               ELSE StrDetailLoop(self, meas + 1, lines1, reads1)

\* str(self): the detailed text is the sequence of measurement lines between
\* the three header lines and '+--+ eop'; the summary calls self.get_mac(),
\* which the class does not define
StrCall(self) ==
  IF self.detail THEN StrDetailLoop(self, 0, <<>>, <<>>)
  ELSE [err |-> "AttributeError", ret |-> <<>>, reads |-> <<>>]

\* ------------------------------------------------------------ inputs
\* '{:02x}'.format(b) for a byte b, and the hex string of a byte sequence
HexOfByte(b) == <<HexChars[(b \div 16) + 1], HexChars[(b % 16) + 1]>>

RECURSIVE HexString(_)
HexString(bytes) ==
  IF bytes = <<>> THEN <<>> ELSE HexOfByte(Head(bytes)) \o HexString(Tail(bytes))

RECURSIVE Flatten(_)
Flatten(seqs) == IF seqs = <<>> THEN <<>> ELSE Head(seqs) \o Flatten(Tail(seqs))

\* the bytes of a packet: two start bytes, id, request id, count, the records
PacketBytes(pid, rid, count, records) == <<250, 1, pid, rid, count>> \o Flatten(records)

\* measurement records: type byte and four value bytes
DriverDebug == <<1, 16, 0, 2, 1>>
DriverSwitch == <<1, 3, 7, 0, 0>>
DriverBeyond == <<1, 42, 0, 0, 1>>
Temperature == <<20, 0, 0, 102, 76>>
Unregistered == <<250, 0, 0, 0, 7>>
SwVersion == <<124, 0, 1, 2, 3>>

GroupRecords == {DriverDebug, DriverSwitch, Temperature, Unregistered}

SeqsUpTo(S, n) == UNION {[1..k -> S] : k \in 0..n}

\* well-formed packets: the count is the number of records
GroupPackets ==
  {PacketBytes(1, 0, Len(rs), rs) : rs \in SeqsUpTo(GroupRecords, MaxMeas)}

\* packets whose count differs from the number of records, packets with a
\* trailer after the records, and packets cut short
OddPackets ==
  {PacketBytes(2, 9, c, rs) :
     c \in 0..(MaxMeas + 2), rs \in SeqsUpTo({DriverDebug, Temperature}, 2)}
  \cup {PacketBytes(3, 4, Len(rs), rs) :
          rs \in SeqsUpTo({DriverBeyond, DriverSwitch, SwVersion}, 2)}
  \cup {PacketBytes(1, 0, 1, <<Temperature>>) \o <<206, 211, 153>>,
        SubSeq(PacketBytes(1, 0, 1, <<Temperature>>), 1, 9),
        <<>>, <<250>>, <<250, 1>>, <<250, 1, 7>>, <<250, 1, 7, 8>>}

\* the packet of add()'s docstring
DocPacket ==
  <<"f","a","0","1","0","1","0","0","0","3","0","1","1","0","0","0","0","2","0","1",
    "2","a","0","0","0","0","0","0","0","0","2","a","0","0","0","0","0","0","0","0",
    "c","e","d","3","9","9">>

\* strings that are not lower-case hex pairs: upper case, odd length, a
\* character that is no hex digit, a sign, a blank
OtherStrings ==
  {<<"F","A","0","1","2","B","0","0","0","1","1","4","0","0","0","0","6","6","4","C">>,
   <<"f">>, <<"f","a","0">>,
   <<"f","a","0","1","0","1","0","0","0","1","0","1","1","0","0","0","0","2","0">>,
   <<"z","z">>, <<"f","a","0","g">>, <<"f","a","0","1","0","x">>, <<"f","a","_","1">>,
   <<"f","a","0","1","-","1","0","0","0","1","1","4","0","0","0","0","6","6","4","c">>,
   <<"f","a","0","1","0","1","+","f","0","1","1","4","0","0","0","0","6","6","4","c">>,
   <<"f","a","0","1","0","1","0","0"," ","1","1","4","0","0","0","0","6","6","4","c">>,
   <<"f","a","0","1","0","1","0","0","0","1","0","1","-","1","0","0","0","2","0","1">>,
   <<"f","a","0","1","0","1","0","0","0","1","0","1","-","f","0","0","0","2","0","1">>,
   <<"f","a","0","1","0","1","0","0","-","1","1","4","0","0","0","0","6","6","4","c">>,
   <<"f","a","0","1","0","1","0","0","0","1","1","4","0","0","0","0","6","6","4","-">>,
   <<"f","a","0","1","0","1","0","0","0","1","1","4","0","0","0","0","6","6","-","4","c">>}

\* the inputs of a fresh instance: the packets above and malformed strings
GroupInputs ==
  {HexString(b) : b \in GroupPackets \cup OddPackets} \cup {DocPacket} \cup OtherStrings

\* the inputs given to an instance that may already hold a packet
Inputs ==
  {HexString(PacketBytes(1, 0, Len(rs), rs)) :
     rs \in SeqsUpTo({DriverDebug, DriverSwitch, Temperature}, 2)}
  \cup {HexString(b) :
          b \in {PacketBytes(2, 9, 2, <<Temperature>>), PacketBytes(2, 9, 0, <<>>),
                  PacketBytes(2, 9, 0, <<DriverDebug>>), PacketBytes(3, 4, 1, <<DriverBeyond>>),
                  PacketBytes(3, 4, 1, <<Unregistered>>),
                  <<>>, <<250, 1, 7>>, <<250, 1, 7, 8>>}}
  \cup {DocPacket, <<"f","a","0">>, <<"f","a","0","g">>,
        <<"f","a","0","1","0","1","0","0","0","1","0","1","-","1","0","0","0","2","0","1">>}

\* one record of every type code, and one driver record of every driver byte
SweepValues == {<<0, 0, 0, 0>>, <<255, 255, 255, 56>>, <<0, 1, 146, 52>>}

SweepPackets ==
  {PacketBytes(5, 6, 1, <<(<<t>> \o v)>>) : t \in 0..255, v \in SweepValues}
  \cup {PacketBytes(5, 6, 1, <<(<<DRIVER_TYPE, d, 0, 0, 1>>)>>) : d \in 0..255}

\* one internal_temperature record (type 11) for each pairing of high and low
\* halves of the 32-bit value around the 16-bit sign boundary
HalfValues == {<<0, 0>>, <<0, 1>>, <<127, 255>>, <<128, 0>>, <<146, 52>>, <<255, 56>>, <<255, 255>>}

TemperaturePackets ==
  {PacketBytes(5, 6, 1, <<(<<11>> \o h \o l)>>) : h \in HalfValues, l \in HalfValues}

FreshInputs ==
  GroupInputs \cup Inputs \cup {HexString(b) : b \in SweepPackets \cup TemperaturePackets}

\* the parse of every input, computed once
Parsed == [string \in FreshInputs |-> ParsePairs(string, 1, <<>>)]

Parse(string) == Parsed[string]

\* ------------------------------------------------------------ the instance
VARIABLES
  pck, id, requestId, meas, size,     \* packet fields
  slot, driver, index, enabled,       \* fields export() writes
  detail, prefix, fullmac, timefmt,   \* configuration
  op,       \* the last call: "add", "export", "str", "set", "si" ("init": none yet)
  arg,      \* the string given to the last add(); <<num>> after __get_si([num])
  err,      \* the exception the last call raised, or "none"
  ret,      \* <<value>> returned by the last call, <<>> if it raised or returns None
  reads,    \* the measurement numbers the last call passed to __get_meas
  prev      \* <<[err, ret]>> of the export() right before the last export(), else <<>>

vars == <<pck, id, requestId, meas, size, slot, driver, index, enabled,
          detail, prefix, fullmac, timefmt, op, arg, err, ret, reads, prev>>

fields == <<pck, id, requestId, meas, size, slot, driver, index, enabled>>

config == <<detail, prefix, fullmac, timefmt>>

Self ==
  [pck |-> pck, id |-> id, requestId |-> requestId, meas |-> meas, size |-> size,
   slot |-> slot, driver |-> driver, index |-> index, enabled |-> enabled,
   detail |-> detail, prefix |-> prefix]

\* vicpack.__init__
Init ==
  /\ pck = <<>> /\ id = 0 /\ requestId = 0 /\ meas = 0 /\ size = 0
  /\ slot = 0 /\ driver = 0 /\ index = 0 /\ enabled = FALSE
  /\ detail = FALSE /\ prefix = TRUE /\ fullmac = FALSE /\ timefmt = "%H:%M:%S"
  /\ op = "init" /\ arg = <<>> /\ err = "none" /\ ret = <<>> /\ reads = <<>>
  /\ prev = <<>>


\* AddCall taking the packet id from the request id's place
AddCall_IdFromRequest(self, string) ==
  LET p == Parse(string)
      s1 == [self EXCEPT !.pck = p.array]
      s2 == [s1 EXCEPT !.id = p.array[PACKET_REQUESTID + 1]]
      s3 == [s2 EXCEPT !.requestId = p.array[PACKET_REQUESTID + 1]]
      s4 == [s3 EXCEPT !.meas = p.array[PACKET_MEAS + 1]]
      s5 == [s4 EXCEPT !.size = Len(p.array)]
  IN IF p.err # "none" THEN [err |-> p.err, self |-> self]
     ELSE IF ~InRange(p.array, PACKET_INDEX) THEN [err |-> "IndexError", self |-> s1]
     ELSE IF ~InRange(p.array, PACKET_REQUESTID) THEN [err |-> "IndexError", self |-> s1]
     ELSE IF ~InRange(p.array, PACKET_MEAS) THEN [err |-> "IndexError", self |-> s3]
     ELSE [err |-> "none", self |-> s5]

\* AddCall that appends the decoded bytes to the packet held before
AddCall_Appends(self, string) ==
  LET p == Parse(string)
      array == self.pck \o p.array
      s1 == [self EXCEPT !.pck = array]
      s2 == [s1 EXCEPT !.id = array[PACKET_INDEX + 1]]
      s3 == [s2 EXCEPT !.requestId = array[PACKET_REQUESTID + 1]]
      s4 == [s3 EXCEPT !.meas = array[PACKET_MEAS + 1]]
      s5 == [s4 EXCEPT !.size = Len(array)]
  IN IF p.err # "none" THEN [err |-> p.err, self |-> self]
     ELSE IF ~InRange(array, PACKET_INDEX) THEN [err |-> "IndexError", self |-> s1]
     ELSE IF ~InRange(array, PACKET_REQUESTID) THEN [err |-> "IndexError", self |-> s2]
     ELSE IF ~InRange(array, PACKET_MEAS) THEN [err |-> "IndexError", self |-> s3]
     ELSE [err |-> "none", self |-> s5]

\* the assignments of add() after the parse, in order; the first IndexError
\* ends the call and keeps what was assigned before it
AddCall(self, string) ==
  LET p == Parse(string)
      s1 == [self EXCEPT !.pck = p.array]
      s2 == [s1 EXCEPT !.id = p.array[PACKET_INDEX + 1]]
      s3 == [s2 EXCEPT !.requestId = p.array[PACKET_REQUESTID + 1]]
      s4 == [s3 EXCEPT !.meas = p.array[PACKET_MEAS + 1]]
      s5 == [s4 EXCEPT !.size = Len(p.array)]
  IN IF p.err # "none" THEN [err |-> p.err, self |-> self]
     ELSE IF ~InRange(p.array, PACKET_INDEX) THEN [err |-> "IndexError", self |-> s1]
     ELSE IF ~InRange(p.array, PACKET_REQUESTID) THEN [err |-> "IndexError", self |-> s2]
     ELSE IF ~InRange(p.array, PACKET_MEAS) THEN [err |-> "IndexError", self |-> s3]
     ELSE [err |-> "none", self |-> s5]

Add(string) ==
  \E r \in {AddCall(Self, string)} :
     /\ pck' = r.self.pck /\ id' = r.self.id /\ requestId' = r.self.requestId
     /\ meas' = r.self.meas /\ size' = r.self.size
     /\ op' = "add" /\ arg' = string /\ err' = r.err /\ ret' = <<>> /\ reads' = <<>>
     /\ prev' = <<>>
     /\ UNCHANGED <<slot, driver, index, enabled, config>>

Export ==
  \E r \in {ExportCall(Self)} :
     /\ slot' = r.slot /\ driver' = r.driver /\ index' = r.index /\ enabled' = r.enabled
     /\ op' = "export" /\ err' = r.err /\ ret' = r.ret /\ reads' = r.reads
     /\ prev' = IF op = "export" THEN <<[err |-> err, ret |-> ret]>> ELSE <<>>
     /\ UNCHANGED <<pck, id, requestId, meas, size, arg, config>>

Str ==
  \E r \in {StrCall(Self)} :
     /\ op' = "str" /\ err' = r.err /\ ret' = r.ret /\ reads' = r.reads
     /\ prev' = <<>>
     /\ UNCHANGED <<fields, arg, config>>

\* a value given to set(): a bool, an int or a str
SetBool(b) == [tag |-> "bool", b |-> b, n |-> 0, s |-> ""]

SetInt(n) == [tag |-> "int", b |-> FALSE, n |-> n, s |-> ""]

SetStr(s) == [tag |-> "str", b |-> FALSE, n |-> 0, s |-> s]

\* value in ['True', 'true', True]: list membership is by ==, and 1 == True
InBooleanTrue(value) ==
  \/ value.tag = "str" /\ value.s \in {"True", "true"}
  \/ value.tag = "bool" /\ value.b
  \/ value.tag = "int" /\ value.n = 1

\* value in ['False', 'false', False]
InBooleanFalse(value) ==
  \/ value.tag = "str" /\ value.s \in {"False", "false"}
  \/ value.tag = "bool" /\ ~value.b
  \/ value.tag = "int" /\ value.n = 0

Set(param, value) ==
  /\ detail' = IF param = "detail" /\ InBooleanTrue(value) THEN TRUE
               ELSE IF param = "detail" /\ InBooleanFalse(value) THEN FALSE
               ELSE detail
  /\ prefix' = IF param = "prefix" /\ InBooleanTrue(value) THEN TRUE
               ELSE IF param = "prefix" /\ InBooleanFalse(value) THEN FALSE
               ELSE prefix
  /\ fullmac' = IF param = "fullmac" /\ InBooleanTrue(value) THEN TRUE
                ELSE IF param = "fullmac" /\ InBooleanFalse(value) THEN FALSE
                ELSE fullmac
  /\ timefmt' = IF param = "timefmt" /\ value.tag = "str" THEN value.s ELSE timefmt
  /\ op' = "set" /\ err' = "none" /\ ret' = <<>> /\ reads' = <<>> /\ prev' = <<>>
  /\ UNCHANGED <<fields, arg>>

SetParams == {"detail", "prefix", "fullmac", "timefmt", "colour"}

SetValues == {SetBool(TRUE), SetBool(FALSE), SetInt(1), SetStr("false")}

\* ------------------------------------------------------------ specifications
\* any sequence of calls on one instance
Next ==
  \/ \E string \in Inputs : Add(string)
  \/ Export
  \/ Str
  \/ \E param \in SetParams, value \in SetValues : Set(param, value)

Spec == Init /\ [][Next]_vars

\* one packet per instance, as main() uses the class
NextFresh ==
  \/ \E string \in FreshInputs : op = "init" /\ Add(string)
  \/ Export
  \/ Str
  \/ \E param \in SetParams, value \in SetValues : Set(param, value)

SpecFresh == Init /\ [][NextFresh]_vars

\* ------------------------------------------------------------ the packet, as laid out
\* The wire layout: measurement i has its type byte at offset 5 i + 5 and
\* its value in the four bytes after it, most significant first.
BytesInRange == \A k \in 1..Len(pck) : pck[k] \in 0..255

TypeAt(i) == pck[PACKET_OFFSET * i + PACKET_HEADER + 1]

ValueAt(i) ==
  LET o == PACKET_OFFSET * i + PACKET_HEADER + 1
  IN [hi |-> pck[o + 1] * 256 + pck[o + 2], lo |-> pck[o + 3] * 256 + pck[o + 4]]

\* all of measurements 0 .. meas-1 lie within the bytes
Complete == meas >= 1 /\ Len(pck) >= PACKET_HEADER + PACKET_OFFSET * meas

\* the numbers of the measurements of a kind, in packet order
RECURSIVE Ascending(_)
Ascending(S) ==
  IF S = {} THEN <<>>
  ELSE LET lo == CHOOSE x \in S : \A y \in S : x <= y
       IN <<lo>> \o Ascending(S \ {lo})

DriverNumbers == Ascending({i \in 0..(meas - 1) : TypeAt(i) = DRIVER_TYPE})

DataNumbers == Ascending({i \in 0..(meas - 1) : TypeAt(i) # DRIVER_TYPE})

\* the decoded measurements of the measurement numbers ns, in order
DecodedAll(ns) == [k \in 1..Len(ns) |-> get_json(TypeAt(ns[k]), ValueAt(ns[k]))]

ExportReturned == op = "export" /\ err = "none"

ExportedSensors == ret[1].sensors

\* the measurements of all exported slots, in order
ExportedMeasurements ==
  Flatten([j \in 1..Len(ExportedSensors) |-> ExportedSensors[j].measurements])

\* ------------------------------------------------------------ claims
\* C1: no measurement is dropped by export(): whenever export() returns for a
\* packet of one or more measurements, the non-driver measurements
\* 0 .. meas-1 are, in order and once each, the measurements of the exported
\* slots; those before the first driver_info are in a default slot that is
\* exported.
C1_NoMeasurementDropped ==
  (ExportReturned /\ BytesInRange /\ Complete)
    => ExportedMeasurements = DecodedAll(DataNumbers)

\* C2: for a packet that starts with a driver_info measurement export() gives
\* one slot per driver_info measurement, in packet order, and slot j holds
\* exactly the measurements between the j-th driver_info and the next one.
C2_OneSlotPerDriver ==
  (ExportReturned /\ BytesInRange /\ Complete /\ TypeAt(0) = DRIVER_TYPE)
    => /\ Len(ExportedSensors) = Len(DriverNumbers)
       /\ \A j \in 1..Len(DriverNumbers) :
            LET from == DriverNumbers[j]
                to == IF j < Len(DriverNumbers) THEN DriverNumbers[j + 1] ELSE meas
                d == ValueAt(from)
            IN /\ ExportedSensors[j].slot = d.hi % 256
               /\ ExportedSensors[j].index = d.lo \div 256
               /\ ExportedSensors[j].measurements
                    = DecodedAll([k \in 1..(to - from - 1) |-> from + k])

\* driver_info, data, driver_info: two slots, the first with the data
\* measurement, the second empty
C2_Witness ==
  /\ ExportReturned /\ BytesInRange /\ Complete /\ meas = 3
  /\ TypeAt(0) = DRIVER_TYPE /\ TypeAt(1) # DRIVER_TYPE /\ TypeAt(2) = DRIVER_TYPE
  /\ Len(ExportedSensors) = 2
  /\ Len(ExportedSensors[1].measurements) = 1
  /\ ExportedSensors[2].measurements = <<>>

\* a string of hex digit pairs, and the bytes it stands for
EvenHex(string) ==
  /\ Len(string) % 2 = 0
  /\ \A k \in 1..Len(string) : string[k] \in DOMAIN HexValue

DecodedBytes(string) ==
  [k \in 1..(Len(string) \div 2) |->
     16 * HexValue[string[2 * k - 1]] + HexValue[string[2 * k]]]

Registered(typ) == \E k \in 1..Len(Types) : Types[k].type = typ

DriverByte(i) == pck[PACKET_OFFSET * i + PACKET_HEADER + 2]

AllDriversKnown ==
  \A i \in 0..(meas - 1) : TypeAt(i) = DRIVER_TYPE => DriverByte(i) \in 0..(Len(Sensors) - 1)

\* all measurements of the exported slots
AllExported ==
  UNION {{ExportedSensors[j].measurements[k] :
            k \in 1..Len(ExportedSensors[j].measurements)} :
         j \in 1..Len(ExportedSensors)}

\* C3: a measurement of an unregistered type does not make export() fail and
\* is exported as key "n/a" with the value [0] and the unit ["n/a"], both
\* one-element sequences.
C3_UnregisteredSentinel ==
  /\ (op = "export" /\ BytesInRange /\ Complete /\ AllDriversKnown) => err = "none"
  /\ ExportReturned =>
       \A m \in AllExported :
         m.key = "n/a" => /\ m.value = PyList(<<PyInt(WordOfInt(0))>>)
                          /\ m.unit = PyList(<<"n/a">>)

\* C4 as first stated: add() succeeds for every string of hex digit pairs,
\* the empty string and strings of fewer than 5 pairs included, and export()
\* then gives bytes 2 and 3 as packetId and requestId.
C4_AddAlwaysSucceeds ==
  /\ (op = "add" /\ EvenHex(arg)) => err = "none"
  /\ (ExportReturned /\ EvenHex(arg) /\ pck = DecodedBytes(arg))
       => /\ ret[1].packetId = DecodedBytes(arg)[PACKET_INDEX + 1]
          /\ ret[1].requestId = DecodedBytes(arg)[PACKET_REQUESTID + 1]

\* C4 amended: add() succeeds for every string of at least 5 hex digit pairs
\* and sets id and requestId to bytes 2 and 3; whenever export() then
\* returns, its packetId and requestId are bytes 2 and 3.
C4_AddThenExportIds ==
  /\ (op = "add" /\ EvenHex(arg) /\ Len(arg) >= 2 * PACKET_HEADER)
       => /\ err = "none"
          /\ pck = DecodedBytes(arg)
          /\ id = DecodedBytes(arg)[PACKET_INDEX + 1]
          /\ requestId = DecodedBytes(arg)[PACKET_REQUESTID + 1]
  /\ (ExportReturned /\ EvenHex(arg) /\ pck = DecodedBytes(arg))
       => /\ ret[1].packetId = DecodedBytes(arg)[PACKET_INDEX + 1]
          /\ ret[1].requestId = DecodedBytes(arg)[PACKET_REQUESTID + 1]

\* export() returned for an upper-case packet whose id and request id differ
C4_Witness ==
  /\ ExportReturned /\ EvenHex(arg) /\ pck = DecodedBytes(arg)
  /\ ret[1].packetId = 43 /\ ret[1].requestId = 0

\* the declared count reaches past the bytes
OverrunIn(bytes, count) ==
  \E i \in 0..(count - 1) : PACKET_OFFSET * i + PACKET_HEADER + 4 >= Len(bytes)

\* C5: when the declared count reaches past the bytes, export() and the
\* detailed text raise IndexError and return nothing, while add() of such a
\* packet does not fail.
C5_OverrunRaises ==
  /\ (op = "export" /\ OverrunIn(pck, meas)) => (err = "IndexError" /\ ret = <<>>)
  /\ (op = "str" /\ detail /\ OverrunIn(pck, meas)) => (err = "IndexError" /\ ret = <<>>)
  /\ (op = "add" /\ EvenHex(arg) /\ Len(arg) >= 2 * PACKET_HEADER
        /\ OverrunIn(DecodedBytes(arg), DecodedBytes(arg)[PACKET_MEAS + 1]))
       => err = "none"

\* a count of 5 over bytes that hold one measurement: export() raised after a
\* first measurement that was read
C5_Witness ==
  /\ op = "export" /\ meas = 5 /\ Len(pck) = 10 /\ err = "IndexError"
  /\ reads = <<0, 0, 1>>

\* C6: add() fails on a string of odd length or with a pair that is not two
\* hex digits (a sign or a blank is no hex digit), so that every stored byte
\* is within 0..255.
C6_OnlyHexPairsAccepted ==
  /\ (op = "add" /\ ~EvenHex(arg)) => err \in {"IndexError", "ValueError"}
  /\ BytesInRange

\* C7: export() called right after an export() that returned gives the same
\* structure again.
C7_ExportIdempotent ==
  (op = "export" /\ prev # <<>> /\ prev[1].err = "none")
    => (err = "none" /\ ret = prev[1].ret)

\* a second export() of a packet with two slots, on an instance whose fields
\* the first export() wrote
C7_Witness ==
  /\ op = "export" /\ prev # <<>> /\ prev[1].err = "none"
  /\ Len(ret[1].sensors) = 2 /\ slot = 7

\* C8: on a loaded packet (at least the 5 header bytes) export() and the
\* detailed text read measurements 0 .. meas-1 and no others; a packet of
\* the 5 header bytes with count 0 is exported and rendered without error
\* and without a measurement.
C8_ReadsMatchCount ==
  ((op = "export" \/ (op = "str" /\ detail)) /\ Len(pck) >= PACKET_HEADER)
    => /\ \A k \in 1..Len(reads) : reads[k] \in 0..(meas - 1)
       /\ err = "none" => {reads[k] : k \in 1..Len(reads)} = 0..(meas - 1)
       /\ (meas = 0 /\ Len(pck) = PACKET_HEADER) => err = "none"

\* C9: a driver_info measurement with a driver byte of 24 or more makes
\* export() raise and return nothing; with driver bytes within 0..23 export()
\* returns and each slot's sensorType is the table entry of its driver byte.
C9_DriverTable ==
  /\ (op = "export" /\ BytesInRange /\ Complete
        /\ \E i \in 0..(meas - 1) : TypeAt(i) = DRIVER_TYPE /\ DriverByte(i) >= 24)
       => (err = "IndexError" /\ ret = <<>>)
  /\ (op = "export" /\ BytesInRange /\ Complete /\ AllDriversKnown)
       => /\ err = "none"
          /\ DriverNumbers # <<>> =>
               /\ Len(ExportedSensors) = Len(DriverNumbers)
               /\ \A j \in 1..Len(DriverNumbers) :
                    ExportedSensors[j].sensorType
                      = Sensors[DriverByte(DriverNumbers[j]) + 1]

\* the first driver byte past the table
C9_Witness ==
  /\ op = "export" /\ BytesInRange /\ Complete /\ meas = 1
  /\ TypeAt(0) = DRIVER_TYPE /\ DriverByte(0) = 24
  /\ err = "IndexError"

\* C10: every exported measurement has as many values as units.
C10_ArityMatches ==
  ExportReturned =>
    \A m \in AllExported :
      /\ m.value.tag = "list" /\ m.unit.tag = "list"
      /\ Len(m.value.items) = Len(m.unit.items)

\* C11: for every driver_info measurement i of a loaded packet the slot that
\* export() opens for it has sensorType = the sensor table entry numbered by
\* the byte at offset 5 i + 6, slot = the byte at 5 i + 7 and index = the byte
\* at 5 i + 8; export() of the packet of add()'s docstring returns exactly
\* one slot.
C11_DriverInfoFields ==
  /\ (ExportReturned /\ BytesInRange /\ Complete /\ DriverNumbers # <<>>)
       => /\ Len(ExportedSensors) = Len(DriverNumbers)
          /\ \A j \in 1..Len(DriverNumbers) :
               LET o == PACKET_OFFSET * DriverNumbers[j] + PACKET_HEADER
               IN /\ pck[o + 1] = DRIVER_TYPE
                  /\ ExportedSensors[j].sensorType = Sensors[pck[o + 2] + 1]
                  /\ ExportedSensors[j].slot = pck[o + 3]
                  /\ ExportedSensors[j].index = pck[o + 4]
  /\ (op = "export" /\ arg = DocPacket)
       => /\ err = "none"
          /\ Len(ExportedSensors) = 1

\* the docstring packet exported: one SENSOR_DEBUG slot, slot 0, index 2,
\* holding the two measurements that follow the driver_info
C11_Witness ==
  /\ ExportReturned /\ arg = DocPacket
  /\ ExportedSensors[1].sensorType = "SENSOR_DEBUG"
  /\ ExportedSensors[1].slot = 0 /\ ExportedSensors[1].index = 2
  /\ Len(ExportedSensors[1].measurements) = 2

\* the instance vicpack() constructs
NewInstance ==
  [pck |-> <<>>, id |-> 0, requestId |-> 0, meas |-> 0, size |-> 0,
   slot |-> 0, driver |-> 0, index |-> 0, enabled |-> FALSE,
   detail |-> FALSE, prefix |-> TRUE]

\* C12: add(p) replaces all packet state: after any calls on one instance
\* that end in a successful add(p), export() returns (or raises) what
\* export() does on a new instance after add(p); earlier packets and the
\* slot/driver/index/enabled fields left by earlier exports have no
\* influence.
C12_AddReplacesState ==
  (op = "export" /\ AddCall(NewInstance, arg).err = "none")
    => LET fresh == ExportCall(AddCall(NewInstance, arg).self)
       IN err = fresh.err /\ ret = fresh.ret

\* export() of a packet without driver_info on an instance whose slot field
\* still holds the 7 of a packet exported before
C12_Witness ==
  /\ ExportReturned /\ Complete /\ DriverNumbers = <<>>
  /\ slot = 7 /\ driver = 3
  /\ Len(ExportedSensors) = 1 /\ ExportedSensors[1].slot = DEFAULT_SLOT

\* C13: with the detail flag off, the text of a successfully loaded packet is
\* produced without error: one summary line is returned.
C13_SummaryRenders ==
  (op = "str" /\ ~detail /\ AddCall(NewInstance, arg).err = "none")
    => err = "none" /\ Len(ret) = 1

\* ------------------------------------------------------------ __get_si alone
\* The numbers given to __get_si: m * 10^e and -m * 10^e as floats, m and -m
\* as ints, and multiples of the ext. current step.
MaxExp == 30

SiMantissas == {0, 1, 5, 25, 999, 1000, 1001, 65535}

SiInputs ==
  {PyFloat(WordOfInt(s * m), 1, e, 1, 0, 0) :
     m \in SiMantissas, s \in {1, -1}, e \in (0 - MaxExp)..MaxExp}
  \cup {PyInt(WordOfInt(s * m)) : m \in SiMantissas, s \in {1, -1}}
  \cup {PyFloat(WordOfInt(m), 322911, -10, 1, 0, 0) : m \in SiMantissas \ {65535}}

\* self.__get_si([num])
GetSi(num) ==
  /\ op' = "si" /\ arg' = <<num>> /\ err' = "none" /\ ret' = <<get_si(num)>>
  /\ reads' = <<>> /\ prev' = <<>>
  /\ UNCHANGED <<fields, config>>

NextSi == \E num \in SiInputs : GetSi(num)

SpecSi == Init /\ [][NextSi]_vars

\* |x * cn| of a number x * cn * 10^ce, as an integer
SiMagnitude(num) ==
  LET n == (num.x.hi * 65536 + num.x.lo) * num.cn
  IN IF n < 0 THEN 0 - n ELSE n

\* m >= 10^k for an integer m >= 1 below 2^31
AtLeastPow10(m, k) ==
  IF k <= 0 THEN TRUE ELSE IF k > 9 THEN FALSE ELSE m >= 10 ^ k

\* floor(log10(|value|) / 3): the d with 1000^d <= |value| < 1000^(d+1)
SiDegree(num) ==
  CHOOSE d \in (0 - MaxExp - 4)..(MaxExp + 4) :
    /\ AtLeastPow10(SiMagnitude(num), 3 * d - num.ce)
    /\ ~AtLeastPow10(SiMagnitude(num), 3 * d + 3 - num.ce)

\* (scaled, prefix) as the scaler is described, with dec the table of the
\* prefixes of negative degrees
SiExpected(num, dec) ==
  IF SiMagnitude(num) = 0 THEN [scaled |-> num, prefix |-> ""]
  ELSE LET d == SiDegree(num)
           c == IF d > 8 THEN 8 ELSE IF d < -8 THEN -8 ELSE d
       IN IF d = 0 THEN [scaled |-> num, prefix |-> ""]
          ELSE [scaled |-> [num EXCEPT !.t = "float", !.ce = @ - 3 * c],
                prefix |-> IF d > 0 THEN <<"k", "M", "G", "T", "P", "E", "Z", "Y">>[c]
                           ELSE dec[0 - c]]

LowSigned16(i) ==
  LET o == PACKET_OFFSET * i + PACKET_HEADER + 1
      low == pck[o + 3] * 256 + pck[o + 4]
  IN IF low < 32768 THEN low ELSE low - 65536

\* C15: a measurement of type 11 (internal_temperature) is exported as
\* s / 100 with s the two's-complement signed reading of the low 16 bits of
\* its 32-bit value; the high 16 bits have no influence.  (Stated on the
\* packets without driver_info, whose k-th exported measurement is
\* measurement k - 1.)
C15_OndieTemperature ==
  (ExportReturned /\ BytesInRange /\ Complete /\ DriverNumbers = <<>>)
    => /\ Len(ExportedMeasurements) = meas
       /\ \A k \in 1..meas :
            TypeAt(k - 1) = 11
              => /\ ExportedMeasurements[k].key = "internal_temperature"
                 /\ ExportedMeasurements[k].value
                      = PyList(<<PyFloat(WordOfInt(LowSigned16(k - 1)), 1, -2, 1, 0, 0)>>)

\* the value 0xFFFFFF38 exported as -200 / 100
C15_Witness ==
  /\ ExportReturned /\ meas = 1 /\ Len(pck) = PACKET_HEADER + PACKET_OFFSET
  /\ TypeAt(0) = 11 /\ ValueAt(0) = [hi |-> 65535, lo |-> 65336]
  /\ ExportedMeasurements[1].value.items[1].x = WordOfInt(-200)
  /\ ExportedMeasurements[1].value.items[1].ce = -2

\* the display templates registered for a type code
Templates(typ) == {Types[k].fmt : k \in {j \in 1..Len(Types) : Types[j].type = typ}}

\* C16: the detailed text has one line per measurement, in packet order: line
\* k is the line of measurement k - 1, led by "+--+ " for a driver_info, by
\* "|  +-- " for any other registered type and empty for an unregistered type
\* code; the rendering fails only when a measurement lies beyond the bytes,
\* never because of a type code.
C16_DetailLines ==
  (op = "str" /\ detail)
    => /\ err = "none"
            => /\ Len(ret[1]) = Len(reads)
               /\ meas >= 1 => Len(ret[1]) = meas
               /\ \A k \in 1..Len(ret[1]) :
                    /\ reads[k] = k - 1
                    /\ IF ~Registered(TypeAt(k - 1)) THEN ret[1][k] = NoLine
                       ELSE /\ ret[1][k].fmt \in Templates(TypeAt(k - 1))
                            /\ ret[1][k].prefix
                                 = IF TypeAt(k - 1) = DRIVER_TYPE THEN "+--+ " ELSE "|  +-- "
       /\ err # "none"
            => /\ err = "IndexError"
               /\ \E i \in 0..(IF meas >= 1 THEN meas - 1 ELSE 0) :
                    Len(pck) < PACKET_OFFSET * i + PACKET_HEADER + PACKET_OFFSET

\* a driver_info, a temperature and a record of the unregistered type 250:
\* three lines, the third empty
C16_Witness ==
  /\ op = "str" /\ detail /\ err = "none" /\ meas = 3 /\ Len(ret[1]) = 3
  /\ TypeAt(0) = DRIVER_TYPE /\ ret[1][1].prefix = "+--+ "
  /\ TypeAt(1) = 20 /\ ret[1][2].prefix = "|  +-- "
  /\ TypeAt(2) = 250 /\ ret[1][3] = NoLine

\* C17: after any calls of add(), failed ones included, the packet fields
\* agree with one another: size is the length of pck and, when pck is not
\* empty, id, requestId and meas are its bytes 2, 3 and 4; a failed add()
\* leaves the five fields as they were.
C17_FieldsConsistent ==
  /\ size = Len(pck)
  /\ pck # <<>>
       => /\ Len(pck) > PACKET_MEAS
          /\ id = pck[PACKET_INDEX + 1]
          /\ requestId = pck[PACKET_REQUESTID + 1]
          /\ meas = pck[PACKET_MEAS + 1]

====
